---- MODULE Spec2Model ----
(***************************************************************************)
(* Model of rising's dataset layer (rising/loading/dataset.py) and of the  *)
(* transform composition exercised by tests/transforms/test_compose.py.    *)
(*                                                                         *)
(* Python values are tagged records so that a location, a loaded sample,   *)
(* a loaded batch and a dictionary key can be told apart, as the           *)
(* interpreter does.  Python indices are kept 0-based; TLA+ sequences are  *)
(* 1-based, so data[i] in the source is data[i + 1] here.                  *)
(***************************************************************************)
EXTENDS Integers, Sequences, FiniteSets, TLC

(* ------------------------------ bounds -------------------------------- *)
\* number of distinct sample locations; the order of the naturals stands
\* for the lexicographic order of the path strings
NPaths == 3
\* longest list of locations handed to a constructor
MaxPaths == 2
\* largest explicit num_workers value requested
MaxWorkers == 2
\* os.cpu_count() of the machine, the size of a Pool() built without argument
CpuCount == 2
\* longest index list handed to get_subset
MaxSubset == 2
\* longest index list handed to get_subset of a subset
MaxNested == 1

\* most stages handed to a Compose
MaxStages == 3
\* largest seed handed to random.seed
MaxSeed == 1
MaxChannels == 2

Paths == 1..NPaths

(* ------------------------------ values -------------------------------- *)
PathV(p) == [t |-> "path", p |-> p]
DictV(id, src) == [t |-> "dict", id |-> id, src |-> src]
ListV(items) == [t |-> "list", items |-> items]
StrV(s) == [t |-> "str", s |-> s]
ErrV(e) == [t |-> "err", e |-> e]

NoneW == [none |-> TRUE, n |-> 0]
IntW(n) == [none |-> FALSE, n |-> n]
WorkerOpts == {NoneW} \cup {IntW(n) : n \in 0..MaxWorkers}

\* the id the sample stored at a location carries: locations 1 and 2 hold
\* samples with the same id, location 3 a different one
IdOf(p) == (p + 1) \div 2
\* number of samples in the batch stored at a location
UnitSize(p) == p % 3
\* ids a caller asks for: those above and one that no sample carries
QueryIds == 1..(IdOf(NPaths) + 1)

LoadFns == {"load_sample", "load_batch"}

\* load_fn(location, **load_kwargs): a loader maps a location to a sample
\* (load_sample) or to a list of samples (load_batch); handed anything that
\* is not a location it fails
LoadFn(fn, loc) ==
    IF loc.t # "path" THEN ErrV("TypeError")
    ELSE IF fn = "load_sample" THEN DictV(IdOf(loc.p), loc.p)
    ELSE ListV([j \in 1..UnitSize(loc.p) |-> DictV(j, loc.p)])

\* sample[id_key]
GetId(sample) ==
    IF sample.t = "dict" THEN [ok |-> TRUE, id |-> sample.id]
    ELSE [ok |-> FALSE, id |-> 0]

\* iter(item): a list yields its items, a dict its keys
Iter(item) ==
    IF item.t = "list" THEN item.items
    ELSE IF item.t = "dict" THEN <<StrV("id"), StrV("src")>>
    ELSE <<>>

(* ------------------------------ sorted -------------------------------- *)
RECURSIVE Insert(_, _)
Insert(s, x) ==
    IF s = <<>> THEN <<x>>
    ELSE IF x < Head(s) THEN <<x>> \o s
    ELSE <<Head(s)>> \o Insert(Tail(s), x)

RECURSIVE Sorted(_)
\* sorted(path): a new ascending list, stable
Sorted(s) ==
    IF s = <<>> THEN <<>>
    ELSE Insert(Sorted(SubSeq(s, 1, Len(s) - 1)), s[Len(s)])

IsSorted(s) == \A i \in 1..(Len(s) - 1) : s[i] <= s[i + 1]

NoDup(s) == \A i, j \in 1..Len(s) : s[i] = s[j] => i = j

PathLists == UNION {[1..n -> Paths] : n \in 0..MaxPaths}

(* ------------------------------- mode --------------------------------- *)
Modes == {"append", "extend", "Append", "concat"}

\* mode.lower()
Lower(m) ==
    CASE m = "Append" -> "append"
      [] m = "EXTEND" -> "extend"
      [] OTHER -> m

\* mutant of AddItem: extend adds the loaded unit as one entry
AddItemExtendAppends(data, item, mode) ==
    LET _mode == Lower(mode) IN
    IF _mode \in {"append", "extend"}
    THEN [exc |-> "none", data |-> Append(data, item)]
    ELSE [exc |-> "TypeError", data |-> data]

\* CacheDataset._add_item
AddItem(data, item, mode) ==
    LET _mode == Lower(mode) IN
    IF _mode = "append" THEN [exc |-> "none", data |-> Append(data, item)]
    ELSE IF _mode = "extend" THEN [exc |-> "none", data |-> data \o Iter(item)]
    ELSE [exc |-> "TypeError", data |-> data]

RECURSIVE AddAll(_, _, _)
\* for sample in _data: self._add_item(data, sample, mode)
AddAll(data, units, mode) ==
    IF units = <<>> THEN [exc |-> "none", data |-> data]
    ELSE LET r == AddItem(data, Head(units), mode) IN
         IF r.exc # "none" THEN r
         ELSE AddAll(r.data, Tail(units), mode)

\* map(load_fn, path) in the calling thread
SeqMap(fn, path) == [i \in 1..Len(path) |-> LoadFn(fn, PathV(path[i]))]

(* --------------------------- item access ------------------------------ *)
CacheGetItemName == "CacheDataset.__getitem__"
LazyGetItemName == "LazyDataset.__getitem__"
SubsetGetItemName == "SubsetDataset.__getitem__"

\* self.__class__.__getitem__ resolved along the class's MRO
ClassGetItem(cls) ==
    CASE cls \in {"CacheDataset", "CacheDatasetID"} -> CacheGetItemName
      [] cls \in {"LazyDataset", "LazyDatasetID"} -> LazyGetItemName
      [] OTHER -> SubsetGetItemName

\* CacheDataset.__getitem__(self, index)
CacheGetItem(attrs, index) ==
    IF index + 1 \in 1..Len(attrs["data"]) THEN attrs["data"][index + 1]
    ELSE ErrV("IndexError")

\* LazyDataset.__getitem__(self, index)
LazyGetItem(attrs, index) ==
    IF index + 1 \in 1..Len(attrs["data"])
    THEN LoadFn(attrs["_load_fn"], attrs["data"][index + 1])
    ELSE ErrV("IndexError")

\* SubsetDataset.__getitem__(self, index): self._old_getitem(self, index);
\* an _old_getitem that is SubsetDataset.__getitem__ itself never returns
SubsetGetItem(attrs, index) ==
    LET f == attrs["_old_getitem"] IN
    IF f = CacheGetItemName THEN CacheGetItem(attrs, index)
    ELSE IF f = LazyGetItemName THEN LazyGetItem(attrs, index)
    ELSE ErrV("RecursionError")

\* o[index]
GetItem(o, index) ==
    LET f == ClassGetItem(o.cls) IN
    IF f = CacheGetItemName THEN CacheGetItem(o.attrs, index)
    ELSE IF f = LazyGetItemName THEN LazyGetItem(o.attrs, index)
    ELSE SubsetGetItem(o.attrs, index)

\* len(o): every class returns len(self.data)
DsLen(o) == Len(o.attrs["data"])

(* ----------------------------- IDManager ------------------------------ *)
NoCache == [none |-> TRUE, map |-> <<>>]

RECURSIVE CacheIdsFrom(_, _, _)
\* {sample[self.id_key]: idx for idx, sample in enumerate(self)}: a later
\* sample with the same id replaces the earlier entry
CacheIdsFrom(o, idx, map) ==
    IF idx >= DsLen(o) THEN [exc |-> "none", map |-> map]
    ELSE LET sample == GetItem(o, idx)
             k == GetId(sample) IN
         IF sample.t = "err" THEN [exc |-> sample.e, map |-> map]
         ELSE IF ~k.ok THEN [exc |-> "TypeError", map |-> map]
         ELSE CacheIdsFrom(o, idx + 1,
                [i \in (DOMAIN map) \cup {k.id} |->
                    IF i = k.id THEN idx ELSE map[i]])

\* mutant of CacheIds: the enumeration starts behind the first sample
CacheIdsSkipsFirst(o) == CacheIdsFrom(o, 1, <<>>)

\* IDManager.cache_ids
CacheIds(o) == CacheIdsFrom(o, 0, <<>>)

RECURSIVE FindFrom(_, _, _)
FindFrom(o, idx, id) ==
    IF idx >= DsLen(o) THEN [exc |-> "KeyError", idx |-> 0]
    ELSE LET sample == GetItem(o, idx)
             k == GetId(sample) IN
         IF sample.t = "err" THEN [exc |-> sample.e, idx |-> 0]
         ELSE IF ~k.ok THEN [exc |-> "TypeError", idx |-> 0]
         ELSE IF k.id = id THEN [exc |-> "none", idx |-> idx]
         ELSE FindFrom(o, idx + 1, id)

\* IDManager._find_index_iterative
FindIndexIterative(o, id) == FindFrom(o, 0, id)

\* mutant of CachedLookup: self._cached_ids.get(id, 0)
CachedLookupGet(cached, id) ==
    IF id \in DOMAIN cached.map THEN [exc |-> "none", idx |-> cached.map[id]]
    ELSE [exc |-> "none", idx |-> 0]

\* self._cached_ids[id]
CachedLookup(cached, id) ==
    IF id \in DOMAIN cached.map THEN [exc |-> "none", idx |-> cached.map[id]]
    ELSE [exc |-> "KeyError", idx |-> 0]

\* IDManager.get_index_by_id
GetIndexById(o, id) ==
    IF ~o.attrs["_cached_ids"].none
    THEN CachedLookup(o.attrs["_cached_ids"], id)
    ELSE FindIndexIterative(o, id)

\* IDManager.get_sample_by_id
GetSampleById(o, id) ==
    LET r == GetIndexById(o, id) IN
    IF r.exc # "none" THEN ErrV(r.exc) ELSE GetItem(o, r.idx)

IdOpts == {[withId |-> FALSE, cache_ids |-> FALSE],
           [withId |-> TRUE, cache_ids |-> TRUE],
           [withId |-> TRUE, cache_ids |-> FALSE]}

\* the part of IDManager.__init__ that runs after super().__init__ returned
IDManagerInit(o, idcfg) ==
    IF ~idcfg.withId THEN [exc |-> "none", obj |-> o]
    ELSE LET o1 == [o EXCEPT !.attrs =
                      ("id_key" :> "id") @@ ("_cached_ids" :> NoCache) @@ @] IN
         IF ~idcfg.cache_ids THEN [exc |-> "none", obj |-> o1]
         ELSE LET c == CacheIds(o1) IN
              IF c.exc # "none" THEN [exc |-> c.exc, obj |-> o1]
              ELSE [exc |-> "none",
                    obj |-> [o1 EXCEPT !.attrs =
                      ("_cached_ids" :> [none |-> FALSE, map |-> c.map]) @@ @]]

(* --------------------------- get_subset ------------------------------- *)
\* key.startswith("__") and key.endswith("__")
IsDunder(key) == key \in {"__dict__", "__weakref__"}

\* mutant of SubsetKwargs: every key with a leading underscore is skipped
SubsetKwargsSkipsPrivate(o) ==
    [key \in {k \in DOMAIN o.attrs :
                k \notin {"data", "_num_workers", "_verbosity", "_load_fn",
                          "_load_kwargs", "_cached_ids", "_old_getitem"}}
        |-> o.attrs[key]]

\* the kwargs collected by Dataset.get_subset from vars(self)
SubsetKwargs(o) ==
    [key \in {k \in DOMAIN o.attrs : ~IsDunder(k) /\ k # "data"} |-> o.attrs[key]]

\* mutant of SubsetInit: data and _old_getitem are assigned after the
\* setattr loop
SubsetInitArgsLast(data, old_getitem, kwargs) ==
    [cls |-> "SubsetDataset",
     attrs |-> ("data" :> data) @@ ("_old_getitem" :> old_getitem) @@ kwargs]

\* SubsetDataset.__init__(data, old_getitem, **kwargs): the setattr loop
\* runs last, so a key of kwargs replaces an attribute set before it
SubsetInit(data, old_getitem, kwargs) ==
    [cls |-> "SubsetDataset",
     attrs |-> kwargs @@ ("data" :> data) @@ ("_old_getitem" :> old_getitem)]

\* [self[idx] for idx in indices]
SubsetData(o, indices) == [i \in 1..Len(indices) |-> GetItem(o, indices[i])]

\* mutant of SelfAfterGetSubset: kwargs is vars(self) itself, and data is
\* popped from it
SelfAfterGetSubsetLosesData(o) == [o EXCEPT !.attrs = SubsetKwargs(o)]

\* self after get_subset: the loop over vars(self) and the item accesses
\* only read it
SelfAfterGetSubset(o) == o

\* Dataset.get_subset: the sub-dataset, self after the call and the indices
\* self[idx] was evaluated for, in the order of evaluation
GetSubset(o, indices) ==
    LET subset_data == SubsetData(o, indices)
        failed == {i \in 1..Len(indices) : subset_data[i].t = "err"}
        first == CHOOSE i \in failed : \A j \in failed : i <= j IN
    IF failed # {}
    THEN [exc |-> subset_data[first].e,
          obj |-> [cls |-> "None", attrs |-> <<>>],
          self |-> o,
          accessed |-> SubSeq(indices, 1, first)]
    ELSE [exc |-> "none",
          obj |-> SubsetInit(subset_data, ClassGetItem(o.cls), SubsetKwargs(o)),
          self |-> SelfAfterGetSubset(o),
          accessed |-> indices]

\* the lists of valid indices of a dataset, up to max long
IndexLists(o, max) ==
    IF "data" \in DOMAIN o.attrs
    THEN UNION {[1..n -> 0..(DsLen(o) - 1)] : n \in 0..max}
    ELSE {}

(* ------------------------- random and Compose ------------------------- *)
\* the shared pseudo-random source: a linear congruential generator stands
\* for the generator of the random module
RngStates == 0..7
RngNext(r) == (5 * r + 3) % 8
\* random.seed(s)
SeedState(s) == (3 * s + 1) % 8
\* one draw below n
RandBelow(n, r) == [v |-> (RngNext(r) \div 2) % n, rng |-> RngNext(r)]

Swap(x, i, j) ==
    [p \in 1..Len(x) |-> IF p = i THEN x[j] ELSE IF p = j THEN x[i] ELSE x[p]]

RECURSIVE ShuffleFrom(_, _, _)
\* for i in reversed(range(1, len(x))): j = randbelow(i + 1); swap x[i], x[j]
ShuffleFrom(x, i, r) ==
    IF i < 1 THEN [seq |-> x, rng |-> r]
    ELSE LET d == RandBelow(i + 1, r) IN
         ShuffleFrom(Swap(x, i + 1, d.v + 1), i - 1, d.rng)

\* random.shuffle(x)
Shuffle(x, r) == ShuffleFrom(x, Len(x) - 1, r)

\* list(range(k))
Identity(k) == [i \in 1..k |-> i - 1]

StageKinds == {"mirror", "shift"}
BatchVals == 0..1
\* one stage applied to a batch: mirror is its own inverse, shift is not
Stage(kind, x) == IF kind = "mirror" THEN 3 - x ELSE (x + 1) % 4

TransformLists == UNION {[1..n -> StageKinds] : n \in 1..MaxStages}

NoCompose == [made |-> FALSE, transforms |-> <<>>, shuffle |-> FALSE,
              transform_order |-> <<>>, called |-> FALSE, rngAt |-> 0,
              input |-> 0, applied |-> <<>>, output |-> 0]

\* Compose(transforms, shuffle=shuffle)
NewCompose(transforms, shuffle) ==
    [NoCompose EXCEPT !.made = TRUE, !.transforms = transforms,
                      !.shuffle = shuffle,
                      !.transform_order = Identity(Len(transforms))]

\* mutant of ComposeOrder: the shuffle flag is ignored
ComposeOrderAlwaysShuffles(c, r) == Shuffle(Identity(Len(c.transforms)), r)

\* mutant of ComposeOrder: the order of the previous call is shuffled in place
ComposeOrderInPlace(c, r) ==
    IF c.shuffle THEN Shuffle(c.transform_order, r)
    ELSE [seq |-> c.transform_order, rng |-> r]

\* the execution order of one call: the identity order kept since
\* construction, or a permutation drawn from the shared random source
ComposeOrder(c, r) ==
    IF c.shuffle THEN Shuffle(Identity(Len(c.transforms)), r)
    ELSE [seq |-> c.transform_order, rng |-> r]

RECURSIVE Thread(_, _, _)
\* the stages of order applied one after the other, each to the output of
\* the one before it
Thread(transforms, order, x) ==
    IF order = <<>> THEN <<>>
    ELSE LET out == Stage(transforms[Head(order) + 1], x) IN
         <<[idx |-> Head(order), inp |-> x, out |-> out]>>
            \o Thread(transforms, Tail(order), out)

(* --------------------------- DropoutCompose --------------------------- *)
\* dropout probabilities in eighths: 0 is dropout=0.0, 8 is dropout=1.0
Dropouts == {0, 4, 8}

\* the dropout argument: one probability for all stages or one per stage
DropoutArgs ==
    {[scalar |-> TRUE, v |-> <<d>>] : d \in Dropouts}
        \cup {[scalar |-> FALSE, v |-> s] :
                s \in UNION {[1..n -> {0, 8}] : n \in 1..MaxStages}}

\* a single probability is broadcast to every stage
Broadcast(arg, k) == IF arg.scalar THEN [i \in 1..k |-> arg.v[1]] ELSE arg.v

\* random.random(), in eighths
RandomDraw(r) == [v |-> RngNext(r), rng |-> RngNext(r)]

\* the Bernoulli trial of one stage: dropout=0.0 always keeps the stage,
\* dropout=1.0 never does
Selected(draw, d) == draw >= d

RECURSIVE Trials(_, _, _)
\* one trial per stage of order, drawn in execution order from the shared
\* random source
Trials(order, dropout, r) ==
    IF order = <<>> THEN [sel |-> <<>>, rng |-> r]
    ELSE LET d == RandomDraw(r)
             rest == Trials(Tail(order), dropout, d.rng) IN
         [sel |-> <<Selected(d.v, dropout[Head(order) + 1])>> \o rest.sel,
          rng |-> rest.rng]

RECURSIVE KeepSelected(_, _)
\* the entries of order whose trial selected them, in the order of order
KeepSelected(order, sel) ==
    IF order = <<>> THEN <<>>
    ELSE (IF Head(sel) THEN <<Head(order)>> ELSE <<>>)
            \o KeepSelected(Tail(order), Tail(sel))

\* mutant of RecordedOrder: only the selected stages are recorded
RecordedOrderSelectedOnly(order, sel) == KeepSelected(order, sel)

\* what a call leaves in transform_order: the whole execution order,
\* whatever the trials
RecordedOrder(order, sel) == order

NoDropout == [made |-> FALSE, transforms |-> <<>>, shuffle |-> FALSE,
              dropout |-> <<>>, transform_order |-> <<>>, called |-> FALSE,
              rngAt |-> 0, input |-> 0, sel |-> <<>>, applied |-> <<>>,
              output |-> 0]

\* DropoutCompose(transforms, dropout=arg, shuffle=shuffle)
NewDropout(transforms, arg, shuffle) ==
    [NoDropout EXCEPT !.made = TRUE, !.transforms = transforms,
                      !.shuffle = shuffle,
                      !.dropout = Broadcast(arg, Len(transforms)),
                      !.transform_order = Identity(Len(transforms))]

(* ----------------------- RandomValuePerChannel ------------------------ *)
\* the fields of a batch
Fields == {"data", "seg"}

\* keys: the fields a transform is configured for, in order
KeyLists == {<<>>, <<"data">>, <<"seg">>, <<"data", "seg">>, <<"seg", "data">>}

\* a batch: for every field the values of its channels (data[key][:, i]),
\* alternating from channel to channel
Batches ==
    [Fields -> {[i \in 1..n |-> (i + b) % 2] : n \in 1..MaxChannels,
                                               b \in BatchVals}]

\* torch.manual_seed(s)
TorchSeedState(s) == (3 * s + 1) % 8

\* self.random_sampler: every access draws one value from the generator of
\* torch
Sample(r) == [v |-> RngNext(r), rng |-> RngNext(r)]

\* add_value(data, value)
AugmentFn(x, value) == x + value

\* mutant of KeyStart: the generator is left where the key before ended
KeyStartNoReset(seed, cur) == cur

\* torch.random.set_rng_state(seed) at the head of the loop over the keys
KeyStart(seed, cur) == seed

RECURSIVE PerChannel(_, _, _)
\* the loop over the channels of data[_key], from channel i on
PerChannel(x, i, r) ==
    IF i > Len(x) THEN [out |-> <<>>, vals |-> <<>>, rng |-> r]
    ELSE LET d == Sample(r)
             rest == PerChannel(x, i + 1, d.rng) IN
         [out |-> <<AugmentFn(x[i], d.v)>> \o rest.out,
          vals |-> <<d.v>> \o rest.vals,
          rng |-> rest.rng]

RECURSIVE PerChannelKeys(_, _, _, _, _)
\* the loop over self.keys of the per_channel branch: data after the loop,
\* the values drawn for each key and the generator
PerChannelKeys(keys, data, used, seed, cur) ==
    IF keys = <<>> THEN [data |-> data, used |-> used, rng |-> cur]
    ELSE LET key == Head(keys)
             c == PerChannel(data[key], 1, KeyStart(seed, cur)) IN
         PerChannelKeys(Tail(keys), [data EXCEPT ![key] = c.out],
                        (key :> c.vals) @@ used, seed, c.rng)

RECURSIVE WholeKeys(_, _, _)
\* the loop over self.keys of the other branch: one value for every key
WholeKeys(keys, data, value) ==
    IF keys = <<>> THEN data
    ELSE LET key == Head(keys) IN
         WholeKeys(Tail(keys),
                   [data EXCEPT ![key] =
                      [i \in 1..Len(data[key]) |-> AugmentFn(data[key][i], value)]],
                   value)

\* RandomValuePerChannel.forward(**data)
Forward(t, data, r) ==
    IF t.per_channel
    THEN PerChannelKeys(t.keys, data, <<>>, r, r)
    ELSE LET d == Sample(r) IN
         [data |-> WholeKeys(t.keys, data, d.v),
          used |-> [key \in {t.keys[i] : i \in 1..Len(t.keys)} |-> <<d.v>>],
          rng |-> d.rng]

NoRandomValue == [made |-> FALSE, per_channel |-> FALSE, keys |-> <<>>,
                  called |-> FALSE, rngAt |-> 0, rngAfter |-> 0,
                  input |-> <<>>, used |-> <<>>, output |-> <<>>]

(* ------------------------------ state --------------------------------- *)
VARIABLES
    debug_mode,  \* get_debug_mode()
    pc,          \* "idle", "pool", "ready" or "raised": where the constructor is
    call,        \* arguments and locals of the running or finished constructor
    pool,        \* the worker pool of CacheDataset._make_dataset
    obj,         \* the constructed dataset
    warned,      \* the UserWarnings emitted so far
    exc,         \* the exception the last operation raised, or "none"
    sub,         \* obj.get_subset(subIdx)
    subIdx,
    sub2,        \* sub.get_subset(subIdx2)
    subIdx2,
    last,        \* the last ID lookup and its outcome
    getLog,      \* the indices the last get_subset evaluated self[idx] for
    rng,         \* state of the shared pseudo-random source
    comps,       \* the Compose objects "A" and "B"
    drop,        \* the DropoutCompose object
    dropExc,     \* the exception DropoutCompose(...) raised, or "none"
    trng,        \* state of the random generator of torch
    rv           \* the RandomValuePerChannel object

rvVars == <<trng, rv>>

\* the variables of the transforms other than Compose
trVars == <<drop, dropExc, rvVars>>

cmpVars == <<rng, comps, trVars>>

dsVars == <<debug_mode, pc, call, pool, obj, warned, exc, sub, subIdx, sub2,
            subIdx2, last, getLog>>

NoObj == [cls |-> "None", attrs |-> <<>>]
NoCall == [cls |-> "None"]
NoPool == [size |-> 0, next |-> 0, running |-> {}, results |-> <<>>,
           order |-> <<>>]
NoLast == [op |-> "none"]

DsInit ==
    /\ debug_mode \in BOOLEAN
    /\ pc = "idle"
    /\ call = NoCall
    /\ pool = NoPool
    /\ obj = NoObj
    /\ warned = {}
    /\ exc = "none"
    /\ sub = NoObj
    /\ subIdx = <<>>
    /\ sub2 = NoObj
    /\ subIdx2 = <<>>
    /\ last = NoLast
    /\ getLog = <<>>

(* ---------------------- CacheDataset construction --------------------- *)
UsePool(nw) == nw.none \/ nw.n > 0

\* mutant of DebugOverride: only an unset worker count is overridden
DebugOverrideUnsetOnly(dm, num_workers) == dm /\ num_workers.none

\* in debug mode a request for workers is answered with a warning and
\* num_workers = 0
DebugOverride(dm, num_workers) == dm /\ UsePool(num_workers)

\* the loop over _data in _make_dataset, the assignment of self.data and,
\* for CacheDatasetID, the rest of IDManager.__init__
CacheFinish(cls, attrs0, units, mode, idcfg) ==
    LET r == AddAll(<<>>, units, mode) IN
    IF r.exc # "none" THEN [exc |-> r.exc, obj |-> NoObj]
    ELSE LET res == IDManagerInit([cls |-> cls,
                                   attrs |-> ("data" :> r.data) @@ attrs0],
                                  idcfg) IN
         IF res.exc # "none" THEN [exc |-> res.exc, obj |-> NoObj] ELSE res

\* mutant of PoolResults: the results in the order the workers finished
PoolResultsByCompletion(p, n) == [i \in 1..n |-> p.results[p.order[i]]]

\* the list a Pool.map call returns: results[i] belongs to task i
PoolResults(p, n) == [i \in 1..n |-> p.results[i]]

\* CacheDataset.__init__ and _make_dataset up to the dispatch; the
\* sequential branch runs to the end of the constructor
CacheDatasetInit(src, listing, load_fn, mode, num_workers, verbose, idcfg) ==
    /\ pc = "idle"
    /\ LET dbg == DebugOverride(debug_mode, num_workers)
           nw == IF dbg THEN IntW(0) ELSE num_workers
           conflict == UsePool(nw) /\ verbose
           verb == IF conflict THEN FALSE ELSE verbose
           cls == IF idcfg.withId THEN "CacheDatasetID" ELSE "CacheDataset"
           attrs0 == ("_num_workers" :> nw) @@ ("_verbosity" :> verb)
                     @@ ("_load_fn" :> load_fn) @@ ("_load_kwargs" :> <<>>)
           path == Sorted(listing)
           c == [cls |-> cls, src |-> src, listing |-> listing,
                 load_fn |-> load_fn, mode |-> mode,
                 num_workers |-> num_workers, verbose |-> verbose,
                 idcfg |-> idcfg, path |-> path, attrs |-> attrs0,
                 pooled |-> FALSE]
       IN
       /\ warned' = warned \cup (IF dbg THEN {"debug"} ELSE {})
                           \cup (IF conflict THEN {"verbosity"} ELSE {})
       /\ IF src = "nodir"
          THEN /\ pc' = "raised"
               /\ exc' = "AssertionError"
               /\ call' = c
               /\ UNCHANGED <<pool, obj>>
          ELSE IF UsePool(nw)
          THEN /\ pc' = "pool"
               /\ call' = [c EXCEPT !.pooled = TRUE]
               /\ pool' = [NoPool EXCEPT !.size = CpuCount]
               /\ UNCHANGED <<obj, exc>>
          ELSE LET res == CacheFinish(cls, attrs0, SeqMap(load_fn, path),
                                      mode, idcfg) IN
               /\ pc' = IF res.exc = "none" THEN "ready" ELSE "raised"
               /\ exc' = res.exc
               /\ obj' = res.obj
               /\ call' = c
               /\ UNCHANGED pool
    /\ UNCHANGED <<debug_mode, sub, subIdx, sub2, subIdx2, last,
                   getLog, cmpVars>>

\* an idle worker of the pool takes the next task of p.map(load_fn, path)
PoolWorkerStart ==
    /\ pc = "pool"
    /\ pool.next < Len(call.path)
    /\ Cardinality(pool.running) < pool.size
    /\ pool' = [pool EXCEPT !.next = @ + 1, !.running = @ \cup {pool.next + 1}]
    /\ UNCHANGED <<debug_mode, pc, call, obj, warned, exc, sub, subIdx, sub2,
                   subIdx2, last,
                   getLog, cmpVars>>

\* a worker finishes task i, whichever tasks are still running
PoolWorkerFinish(i) ==
    /\ pc = "pool"
    /\ i \in pool.running
    /\ pool' = [pool EXCEPT
                  !.running = @ \ {i},
                  !.results = (i :> LoadFn(call.load_fn, PathV(call.path[i]))) @@ @,
                  !.order = Append(@, i)]
    /\ UNCHANGED <<debug_mode, pc, call, obj, warned, exc, sub, subIdx, sub2,
                   subIdx2, last,
                   getLog, cmpVars>>

\* p.map returns once every task is done; the rest of the constructor runs
PoolJoin ==
    /\ pc = "pool"
    /\ pool.next = Len(call.path)
    /\ pool.running = {}
    /\ LET res == CacheFinish(call.cls, call.attrs,
                              PoolResults(pool, Len(call.path)),
                              call.mode, call.idcfg) IN
       /\ pc' = IF res.exc = "none" THEN "ready" ELSE "raised"
       /\ exc' = res.exc
       /\ obj' = res.obj
    /\ UNCHANGED <<debug_mode, call, pool, warned, sub, subIdx, sub2, subIdx2,
                   last,
                   getLog, cmpVars>>

(* ---------------------- LazyDataset construction ---------------------- *)
\* LazyDataset._make_dataset: the value of sorted(path) is dropped
LazyMakeDataset(listing) == listing

\* LazyDataset.__init__ and, for LazyDatasetID, the rest of IDManager.__init__
LazyDatasetInit(src, listing, load_fn, idcfg) ==
    /\ pc = "idle"
    /\ LET cls == IF idcfg.withId THEN "LazyDatasetID" ELSE "LazyDataset"
           attrs0 == ("_load_fn" :> load_fn) @@ ("_load_kwargs" :> <<>>)
           data == [i \in 1..Len(listing) |-> PathV(LazyMakeDataset(listing)[i])]
           c == [cls |-> cls, src |-> src, listing |-> listing,
                 load_fn |-> load_fn, mode |-> "append",
                 num_workers |-> IntW(0), verbose |-> FALSE,
                 idcfg |-> idcfg, path |-> LazyMakeDataset(listing),
                 attrs |-> attrs0, pooled |-> FALSE]
           res0 == IDManagerInit([cls |-> cls,
                                  attrs |-> ("data" :> data) @@ attrs0], idcfg)
           res == IF res0.exc # "none" THEN [exc |-> res0.exc, obj |-> NoObj]
                  ELSE res0
       IN
       /\ call' = c
       /\ IF src = "nodir"
          THEN /\ pc' = "raised"
               /\ exc' = "AssertionError"
               /\ UNCHANGED obj
          ELSE /\ pc' = IF res.exc = "none" THEN "ready" ELSE "raised"
               /\ exc' = res.exc
               /\ obj' = res.obj
    /\ UNCHANGED <<debug_mode, pool, warned, sub, subIdx, sub2, subIdx2, last,
                   getLog, cmpVars>>

(* ------------------------ operations on datasets ---------------------- *)
\* sub = obj.get_subset(indices)
GetSubsetOfDataset(indices) ==
    /\ pc = "ready"
    /\ sub = NoObj
    /\ LET res == GetSubset(obj, indices) IN
       /\ exc' = res.exc
       /\ obj' = res.self
       /\ sub' = res.obj
       /\ subIdx' = IF res.exc = "none" THEN indices ELSE subIdx
       /\ getLog' = res.accessed
    /\ UNCHANGED <<debug_mode, pc, call, pool, warned, sub2, subIdx2, last,
                   cmpVars>>

\* sub2 = sub.get_subset(indices)
GetSubsetOfSubset(indices) ==
    /\ pc = "ready"
    /\ sub # NoObj
    /\ sub2 = NoObj
    /\ LET res == GetSubset(sub, indices) IN
       /\ exc' = res.exc
       /\ sub' = res.self
       /\ sub2' = res.obj
       /\ subIdx2' = IF res.exc = "none" THEN indices ELSE subIdx2
       /\ getLog' = res.accessed
    /\ UNCHANGED <<debug_mode, pc, call, pool, obj, warned, subIdx, last,
                   cmpVars>>

HasIds(o) == o.cls \in {"CacheDatasetID", "LazyDatasetID"}

\* obj.get_index_by_id(id)
GetIndexByIdCall(id) ==
    /\ pc = "ready"
    /\ HasIds(obj)
    /\ LET r == GetIndexById(obj, id) IN
       /\ last' = [op |-> "get_index_by_id", id |-> id, res |-> r]
       /\ exc' = r.exc
    /\ UNCHANGED <<debug_mode, pc, call, pool, obj, warned, sub, subIdx, sub2,
                   subIdx2,
                   getLog, cmpVars>>

\* obj.get_sample_by_id(id)
GetSampleByIdCall(id) ==
    /\ pc = "ready"
    /\ HasIds(obj)
    /\ LET r == GetSampleById(obj, id) IN
       /\ last' = [op |-> "get_sample_by_id", id |-> id, res |-> r]
       /\ exc' = IF r.t = "err" THEN r.e ELSE "none"
    /\ UNCHANGED <<debug_mode, pc, call, pool, obj, warned, sub, subIdx, sub2,
                   subIdx2,
                   getLog, cmpVars>>

\* what a caller can hand over as data_path: a list of locations, a
\* directory (its listing comes back in an order the OS chooses, each entry
\* once) or a path that is no directory
ValidSource(src, listing) ==
    /\ src = "dir" => NoDup(listing)
    /\ src = "nodir" => listing = <<>>

SourceKinds == {"list", "dir", "nodir"}

SourceArgs(Ss) == {a \in Ss \X PathLists : ValidSource(a[1], a[2])}

\* a caller constructs a CacheDataset or a CacheDatasetID
CacheConstruct(Ss, Ms, Ws, Vs, Is) ==
    /\ pc = "idle"
    /\ \E a \in SourceArgs(Ss), load_fn \in LoadFns, mode \in Ms,
          num_workers \in Ws, verbose \in Vs, idcfg \in Is :
          CacheDatasetInit(a[1], a[2], load_fn, mode, num_workers, verbose,
                           idcfg)

\* a caller constructs a LazyDataset or a LazyDatasetID
LazyConstruct(Ss, Is) ==
    /\ pc = "idle"
    /\ \E a \in SourceArgs(Ss), load_fn \in LoadFns, idcfg \in Is :
          LazyDatasetInit(a[1], a[2], load_fn, idcfg)

(* ------------------------------ Compose ------------------------------- *)
CmpInit ==
    /\ rng = 0
    /\ comps = [c \in {"A", "B"} |-> NoCompose]
    /\ drop = NoDropout
    /\ dropExc = "none"
    /\ trng = 0
    /\ rv = NoRandomValue

\* comps[c] = Compose(transforms, shuffle=shuffle)
ComposeInit(c, transforms, shuffle) ==
    /\ ~comps[c].made
    /\ comps' = [comps EXCEPT ![c] = NewCompose(transforms, shuffle)]
    /\ UNCHANGED <<rng, trVars, dsVars>>

\* random.seed(s)
Seed(s) ==
    /\ rng' = SeedState(s)
    /\ UNCHANGED <<comps, trVars, dsVars>>

\* comps[c](**batch)
ComposeCall(c, x) ==
    /\ comps[c].made
    /\ LET o == ComposeOrder(comps[c], rng)
           applied == Thread(comps[c].transforms, o.seq, x) IN
       /\ rng' = o.rng
       /\ comps' = [comps EXCEPT ![c] =
                      [@ EXCEPT !.transform_order = o.seq,
                                !.called = TRUE,
                                !.rngAt = rng,
                                !.input = x,
                                !.applied = applied,
                                !.output = IF applied = <<>> THEN x
                                           ELSE applied[Len(applied)].out]]
    /\ UNCHANGED <<trVars, dsVars>>

\* the second Compose of a run is configured like the first
SameConfig(c, transforms, shuffle) ==
    \A d \in {"A", "B"} \ {c} :
        comps[d].made =>
            (comps[d].transforms = transforms /\ comps[d].shuffle = shuffle)

ComposeConstruct ==
    \E c \in {"A", "B"}, transforms \in TransformLists, shuffle \in BOOLEAN :
        /\ SameConfig(c, transforms, shuffle)
        /\ ComposeInit(c, transforms, shuffle)

(* --------------------------- DropoutCompose --------------------------- *)
\* drop = DropoutCompose(transforms, dropout=arg, shuffle=shuffle)
DropoutInit(transforms, arg, shuffle) ==
    /\ ~drop.made
    /\ dropExc = "none"
    /\ IF Len(Broadcast(arg, Len(transforms))) # Len(transforms)
       THEN /\ dropExc' = "TypeError"
            /\ UNCHANGED drop
       ELSE /\ drop' = NewDropout(transforms, arg, shuffle)
            /\ UNCHANGED dropExc
    /\ UNCHANGED <<rng, comps, rvVars, dsVars>>

\* drop(**batch)
DropoutCall(x) ==
    /\ drop.made
    /\ LET o == ComposeOrder(drop, rng)
           t == Trials(o.seq, drop.dropout, o.rng)
           applied == Thread(drop.transforms, KeepSelected(o.seq, t.sel), x) IN
       /\ rng' = t.rng
       /\ drop' = [drop EXCEPT !.transform_order = RecordedOrder(o.seq, t.sel),
                               !.called = TRUE,
                               !.rngAt = rng,
                               !.input = x,
                               !.sel = t.sel,
                               !.applied = applied,
                               !.output = IF applied = <<>> THEN x
                                          ELSE applied[Len(applied)].out]
    /\ UNCHANGED <<comps, dropExc, rvVars, dsVars>>

DropoutConstruct ==
    \E transforms \in TransformLists, arg \in DropoutArgs, shuffle \in BOOLEAN :
        DropoutInit(transforms, arg, shuffle)

(* ----------------------- RandomValuePerChannel ------------------------ *)
\* rv = RandomValuePerChannel(add_value, sampler, per_channel, keys)
RandomValueInit(per_channel, keys) ==
    /\ ~rv.made
    /\ rv' = [NoRandomValue EXCEPT !.made = TRUE, !.per_channel = per_channel,
                                   !.keys = keys]
    /\ UNCHANGED <<trng, rng, comps, drop, dropExc, dsVars>>

\* torch.manual_seed(s)
TorchSeed(s) ==
    /\ trng' = TorchSeedState(s)
    /\ UNCHANGED <<rv, rng, comps, drop, dropExc, dsVars>>

\* rv(**data)
RandomValueCall(data) ==
    /\ rv.made
    /\ LET f == Forward(rv, data, trng) IN
       /\ trng' = f.rng
       /\ rv' = [rv EXCEPT !.called = TRUE, !.rngAt = trng, !.rngAfter = f.rng,
                           !.input = data, !.used = f.used,
                           !.output = f.data]
    /\ UNCHANGED <<rng, comps, drop, dropExc, dsVars>>

(* --------------------------- specifications --------------------------- *)
vars == <<dsVars, cmpVars>>

Init == DsInit /\ CmpInit

\* construction of datasets, over every option of the constructors
Next ==
    \/ CacheConstruct(SourceKinds, Modes, WorkerOpts, BOOLEAN, IdOpts)
    \/ PoolWorkerStart
    \/ \E i \in pool.running : PoolWorkerFinish(i)
    \/ PoolJoin
    \/ LazyConstruct(SourceKinds, IdOpts)
Spec == Init /\ [][Next]_vars

\* debug mode only bears on the choice between pool and calling thread
QuietInit == Init /\ ~debug_mode

\* sub-datasets of datasets loaded in the calling thread from lists
SubsetNext ==
    \/ CacheConstruct({"list"}, {"append", "extend"}, {IntW(0)}, {FALSE}, IdOpts)
    \/ LazyConstruct({"list"}, IdOpts)
    \/ \E indices \in IndexLists(obj, MaxSubset) : GetSubsetOfDataset(indices)
    \/ \E indices \in IndexLists(sub, MaxNested) : GetSubsetOfSubset(indices)
SubsetSpec == QuietInit /\ [][SubsetNext]_vars

\* ID lookups on datasets with an IDManager, loaded in the calling thread
IdNext ==
    \/ CacheConstruct(SourceKinds, {"append", "extend"}, {IntW(0)}, {FALSE},
                      {o \in IdOpts : o.withId})
    \/ LazyConstruct(SourceKinds, {o \in IdOpts : o.withId})
    \/ \E id \in QueryIds : GetIndexByIdCall(id)
    \/ \E id \in QueryIds : GetSampleByIdCall(id)
IdSpec == QuietInit /\ [][IdNext]_vars

\* calls of two Compose objects that share the random source
ComposeNext ==
    \/ ComposeConstruct
    \/ \E s \in 0..MaxSeed : Seed(s)
    \/ \E c \in {"A", "B"}, x \in BatchVals : ComposeCall(c, x)
ComposeSpec == QuietInit /\ [][ComposeNext]_vars

\* calls of a DropoutCompose object
DropoutNext ==
    \/ DropoutConstruct
    \/ \E s \in 0..MaxSeed : Seed(s)
    \/ \E x \in BatchVals : DropoutCall(x)
DropoutSpec == QuietInit /\ [][DropoutNext]_vars

\* calls of a RandomValuePerChannel transform
RandomValueNext ==
    \/ \E per_channel \in BOOLEAN, keys \in KeyLists :
          RandomValueInit(per_channel, keys)
    \/ \E s \in 0..MaxSeed : TorchSeed(s)
    \/ \E data \in Batches : RandomValueCall(data)
RandomValueSpec == QuietInit /\ [][RandomValueNext]_vars

(* =============================== claims =============================== *)
IsCache(c) == c \in {"CacheDataset", "CacheDatasetID"}
IsLazy(c) == c \in {"LazyDataset", "LazyDatasetID"}

\* C1: every item k of obj.get_subset(I) equals obj[I[k]], whatever the
\* kind of the dataset.
C1_SubsetItemsEqualParentItems ==
    sub # NoObj =>
        \A k \in 1..Len(subIdx) : GetItem(sub, k - 1) = GetItem(obj, subIdx[k])

AttrsCopied(parent, child) ==
    \A key \in (DOMAIN parent.attrs) \ {"data"} :
        /\ key \in DOMAIN child.attrs
        /\ child.attrs[key] = parent.attrs[key]

\* C2: a subset carries every instance attribute of the dataset it was taken
\* from, except data, with the parent's value.
C2_SubsetKeepsParentAttributes ==
    /\ sub # NoObj => AttrsCopied(obj, sub)
    /\ sub2 # NoObj => AttrsCopied(sub, sub2)

C2_Witness ==
    /\ sub # NoObj
    /\ sub2 # NoObj
    /\ obj.cls = "CacheDatasetID"
    /\ ~obj.attrs["_cached_ids"].none
    /\ Len(subIdx) = 2
    /\ Len(subIdx2) = 1
    /\ DOMAIN sub.attrs = (DOMAIN obj.attrs) \cup {"_old_getitem"}

RECURSIVE SumSizes(_)
SumSizes(units) ==
    IF units = <<>> THEN 0 ELSE Len(Iter(Head(units))) + SumSizes(Tail(units))

\* the loader outputs of a constructed CacheDataset, in load order
LoadedUnits == SeqMap(call.load_fn, call.path)

\* the entries of unit i lie contiguously behind those of units 1..i-1
Contiguous(data, units) ==
    \A i \in 1..Len(units) :
        LET off == SumSizes(SubSeq(units, 1, i - 1)) IN
        SubSeq(data, off + 1, off + Len(Iter(units[i]))) = Iter(units[i])

\* C3: a CacheDataset built with mode append has one entry per loader
\* output; built with mode extend its length is the sum of the sizes of the
\* outputs, the entries of each output contiguous and in load order.
C3_LengthByMode ==
    (pc = "ready" /\ IsCache(obj.cls)) =>
        /\ call.mode = "append" => DsLen(obj) = Len(call.listing)
        /\ call.mode = "extend" =>
              /\ DsLen(obj) = SumSizes(LoadedUnits)
              /\ Contiguous(obj.attrs["data"], LoadedUnits)

C3_Witness ==
    /\ pc = "ready"
    /\ IsCache(obj.cls)
    /\ call.mode = "extend"
    /\ call.load_fn = "load_batch"
    /\ Len(call.listing) = 2
    /\ DsLen(obj) = 3

\* C4: a CacheDataset loaded through the worker pool holds the data that
\* sequential loading of the sorted locations gives, whatever the order in
\* which the workers finished.
C4_ParallelEqualsSequential ==
    (pc = "ready" /\ call.pooled) =>
        /\ \A i \in 1..Len(call.path) :
              pool.results[i] = LoadFn(call.load_fn, PathV(Sorted(call.listing)[i]))
        /\ obj.attrs["data"] =
              AddAll(<<>>, SeqMap(call.load_fn, Sorted(call.listing)),
                     call.mode).data

C4_Witness ==
    /\ pc = "ready"
    /\ call.pooled
    /\ pool.order = <<2, 1>>
    /\ call.path[1] # call.path[2]
    /\ call.listing # call.path

\* the answer the ID cache of a dataset gives when it is built
ViaCache(o, id) ==
    LET c == CacheIds(o) IN
    IF c.exc # "none" THEN [exc |-> c.exc, idx |-> 0]
    ELSE CachedLookup([none |-> FALSE, map |-> c.map], id)

\* the answer of the lookup route that get_index_by_id did not take
OtherRoute(o, id) ==
    IF o.attrs["_cached_ids"].none THEN ViaCache(o, id)
    ELSE FindIndexIterative(o, id)

\* no two samples of the dataset carry the same id
UniqueIds(o) ==
    \A i, j \in 0..(DsLen(o) - 1) :
        (GetId(GetItem(o, i)).ok /\ GetId(GetItem(o, i)) = GetId(GetItem(o, j)))
            => i = j

\* C5 as stated: get_index_by_id answers the same through the ID cache and
\* through the linear scan.
C5_CacheAndScanAgree ==
    last.op = "get_index_by_id" => last.res = OtherRoute(obj, last.id)

\* C5 (amended): get_index_by_id answers the same through the ID cache and
\* through the linear scan on a dataset whose samples carry distinct ids.
C5_CacheAndScanAgreeOnUniqueIds ==
    (last.op = "get_index_by_id" /\ UniqueIds(obj)) =>
        last.res = OtherRoute(obj, last.id)

C5_Witness ==
    /\ last.op = "get_index_by_id"
    /\ UniqueIds(obj)
    /\ ~obj.attrs["_cached_ids"].none
    /\ DsLen(obj) = 2
    /\ last.res = [exc |-> "none", idx |-> 1]

\* C6: the locations a LazyDataset stores are in sorted order.
C6_LazyDataSorted ==
    (pc = "ready" /\ IsLazy(obj.cls)) =>
        IsSorted([i \in 1..DsLen(obj) |-> obj.attrs["data"][i].p])

\* C7: a CacheDataset constructor given a mode other than append or extend
\* (in any letter case) raises TypeError and produces no dataset, whatever
\* the locations.
C7_UnknownModeRaises ==
    (IsCache(call.cls) /\ call.src # "nodir" /\ pc \in {"ready", "raised"}
        /\ Lower(call.mode) \notin {"append", "extend"}) =>
        (pc = "raised" /\ exc = "TypeError" /\ obj = NoObj)

\* C8: num_workers 0 loads in the calling thread, N > 0 loads through a pool
\* of N workers, unset loads through a pool of as many workers as cores.
C8_NumWorkersSizesPool ==
    (IsCache(call.cls) /\ call.src # "nodir") =>
        LET nw == call.attrs["_num_workers"] IN
        /\ (~nw.none /\ nw.n = 0) => (~call.pooled /\ pool = NoPool)
        /\ (~nw.none /\ nw.n > 0) => (call.pooled /\ pool.size = nw.n)
        /\ nw.none => (call.pooled /\ pool.size = CpuCount)

IsPermutation(order, k) ==
    /\ Len(order) = k
    /\ \A i \in 0..(k - 1) : \E p \in 1..k : order[p] = i

\* the stages were applied in the recorded order, each to the output of the
\* one before it
Threaded(c) ==
    /\ Len(c.applied) = Len(c.transform_order)
    /\ \A p \in 1..Len(c.applied) :
          /\ c.applied[p].idx = c.transform_order[p]
          /\ c.applied[p].inp = IF p = 1 THEN c.input ELSE c.applied[p - 1].out
          /\ c.applied[p].out = Stage(c.transforms[c.applied[p].idx + 1],
                                      c.applied[p].inp)
    /\ c.output = IF c.applied = <<>> THEN c.input
                  ELSE c.applied[Len(c.applied)].out

\* C9: a Compose without shuffling records the order 0, 1, ..., k-1 after
\* every call and applies its stages in that order, each to the output of
\* the stage before it.
C9_UnshuffledOrderIsIdentity ==
    \A c \in {"A", "B"} :
        (comps[c].made /\ ~comps[c].shuffle) =>
            /\ comps[c].transform_order = Identity(Len(comps[c].transforms))
            /\ comps[c].called => Threaded(comps[c])

C9_Witness ==
    /\ comps["A"].called
    /\ ~comps["A"].shuffle
    /\ comps["A"].transforms = <<"mirror", "shift", "mirror">>
    /\ comps["A"].rngAt # 0
    /\ comps["B"].called
    /\ comps["A"].output # comps["A"].input

\* C10: the order a shuffling Compose records is a permutation of its stage
\* indices fixed by the state of the random source at the call: it is the
\* shuffle of 0..k-1 from that state, so two Compose objects of the same
\* configuration called from the same state record the same order.
C10_ShuffledOrderFixedBySeed ==
    /\ \A c \in {"A", "B"} :
          (comps[c].called /\ comps[c].shuffle) =>
              /\ IsPermutation(comps[c].transform_order, Len(comps[c].transforms))
              /\ comps[c].transform_order =
                    Shuffle(Identity(Len(comps[c].transforms)), comps[c].rngAt).seq
              /\ Threaded(comps[c])
    /\ (/\ comps["A"].called /\ comps["B"].called
        /\ comps["A"].shuffle /\ comps["B"].shuffle
        /\ comps["A"].transforms = comps["B"].transforms
        /\ comps["A"].rngAt = comps["B"].rngAt)
           => comps["A"].transform_order = comps["B"].transform_order

C10_Witness ==
    /\ comps["A"].called /\ comps["B"].called
    /\ comps["A"].shuffle /\ comps["B"].shuffle
    /\ Len(comps["A"].transforms) = 3
    /\ comps["A"].rngAt = SeedState(1)
    /\ comps["B"].rngAt = SeedState(1)
    /\ comps["A"].transform_order # Identity(3)
    /\ comps["A"].transform_order = comps["B"].transform_order

\* each applied stage took the output of the one applied before it
Chained(c) ==
    /\ \A p \in 1..Len(c.applied) :
          /\ c.applied[p].inp = IF p = 1 THEN c.input ELSE c.applied[p - 1].out
          /\ c.applied[p].out = Stage(c.transforms[c.applied[p].idx + 1],
                                      c.applied[p].inp)
    /\ c.output = IF c.applied = <<>> THEN c.input
                  ELSE c.applied[Len(c.applied)].out

\* the indices of the stages a call applied, in the order it applied them
AppliedIdx(c) == [i \in 1..Len(c.applied) |-> c.applied[i].idx]

C12_DebugModeLoadsSequentially ==
    (debug_mode /\ IsCache(call.cls)) =>
        /\ pc # "pool"
        /\ ~call.pooled
        /\ pool = NoPool
        /\ call.attrs["_num_workers"] = IntW(0)
        /\ UsePool(call.num_workers) => "debug" \in warned
        /\ call.src # "nodir" =>
              LET res == CacheFinish(call.cls, call.attrs,
                                     SeqMap(call.load_fn, call.path),
                                     call.mode, call.idcfg) IN
              /\ exc = res.exc
              /\ pc = "ready" => obj = res.obj
        /\ call.src = "nodir" => exc = "AssertionError"

\* a dataset of two samples built in debug mode although two workers were
\* requested
C12_Witness ==
    /\ debug_mode
    /\ pc = "ready"
    /\ IsCache(call.cls)
    /\ ~call.num_workers.none
    /\ call.num_workers.n = 2
    /\ "debug" \in warned
    /\ Len(obj.attrs["data"]) >= 2

\* no sample of the dataset carries the id
Absent(o, id) ==
    \A i \in 0..(DsLen(o) - 1) :
        LET k == GetId(GetItem(o, i)) IN ~(k.ok /\ k.id = id)

\* every sample of the dataset is a mapping
SamplesAreMappings(o) ==
    \A i \in 0..(DsLen(o) - 1) : GetItem(o, i).t = "dict"

\* a step that is a call of get_index_by_id or get_sample_by_id which
\* raises KeyError and leaves the dataset and its ID cache as they were
FailsWithKeyError ==
    /\ exc' = "KeyError"
    /\ last'.res = IF last'.op = "get_index_by_id"
                   THEN [exc |-> "KeyError", idx |-> 0]
                   ELSE ErrV("KeyError")
    /\ obj' = obj
    /\ pc' = pc

BuiltFrom(s, parent, indices, log) ==
    /\ log = indices
    /\ Len(s.attrs["data"]) = Len(indices)
    /\ \A k \in 1..Len(indices) :
          s.attrs["data"][k] = GetItem(parent, indices[k])

\* C14: get_subset never mutates its parent: across every get_subset call,
\* on a dataset or on a sub-dataset, the parent keeps its data and every
\* other attribute, and the samples of the new sub-dataset are computed at
\* construction by one item access of the parent per requested index
C14_GetSubsetLeavesParentUnchanged ==
    [][(pc = "ready" /\ pc' = "ready") =>
          /\ obj' = obj
          /\ sub # NoObj => sub' = sub
          /\ (sub = NoObj /\ sub' # NoObj) =>
                BuiltFrom(sub', obj, subIdx', getLog')
          /\ (sub2 = NoObj /\ sub2' # NoObj) =>
                BuiltFrom(sub2', sub, subIdx2', getLog')]_vars

\* a sub-dataset of a LazyDataset that was asked for the same index twice,
\* next to its unchanged parent
C14_Witness ==
    /\ sub # NoObj
    /\ IsLazy(obj.cls)
    /\ DsLen(obj) = 2
    /\ subIdx = <<1, 1>>
    /\ getLog = subIdx
    /\ DsLen(sub) = 2

\* C15: for a sub-dataset S1 of a CacheDataset and a list J of valid
\* indices, S2 = S1.get_subset(J) has one item per entry of J, its
\* _old_getitem is the item access of the CacheDataset (copied from S1 over
\* the old_getitem handed to the constructor), and S2[k] ends without
\* recursion through SubsetDataset.__getitem__ and equals S1[J[k]]
C15_NestedSubsetItems ==
    (IsCache(obj.cls) /\ sub2 # NoObj) =>
        /\ sub.attrs["_old_getitem"] = CacheGetItemName
        /\ sub2.attrs["_old_getitem"] = CacheGetItemName
        /\ DsLen(sub2) = Len(subIdx2)
        /\ \A k \in 1..Len(subIdx2) :
              /\ GetItem(sub2, k - 1) # ErrV("RecursionError")
              /\ GetItem(sub2, k - 1).t # "err"
              /\ GetItem(sub2, k - 1) = GetItem(sub, subIdx2[k])

\* a nested sub-dataset that holds the second item of a sub-dataset of two
\* items of a CacheDataset
C15_Witness ==
    /\ IsCache(obj.cls)
    /\ sub # NoObj
    /\ sub2 # NoObj
    /\ DsLen(sub) = 2
    /\ subIdx2 = <<1>>
    /\ GetItem(sub2, 0) = GetItem(obj, subIdx[2])
    /\ GetItem(sub, 0) # GetItem(sub, 1)

RECURSIVE StateAfter(_, _)
\* the generator n draws after state r
StateAfter(r, n) == IF n = 0 THEN r ELSE StateAfter(RngNext(r), n - 1)

\* the values of n successive draws of the sampler from state r
Draws(r, n) == [i \in 1..n |-> Sample(StateAfter(r, i - 1)).v]

====
